---------------------------- MODULE Spec2Model ----------------------------
(* PrecisionMedTwin: the on-chain encrypted record / decryption-callback   *)
(* protocol (contracts/PrecisionMedTwin.sol) and the twin record store     *)
(* driven by the web client (frontend/web/src/App.tsx).                    *)
EXTENDS Integers, Sequences, FiniteSets, TLC

(***************************************************************************)
(* Bounds of the model                                                     *)
(***************************************************************************)
MaxPatientId == 1
MaxPlain == 1
MaxDrugs == 1
MaxResults == 3
MaxVecLen == 1
MaxRequests == 2
MaxTimestamp == 1
MaxClients == 2
MaxClock == 2
MaxKeys == 2
MaxDataLen == 2
MaxScaleLen == 0

PatientIds == 0..MaxPatientId
Plain == 0..MaxPlain
RequestIds == 0..MaxRequests
Timestamps == 1..MaxTimestamp
Senders == {"patient", "physician", "outsider"}

RECURSIVE SeqsUpTo(_, _)
SeqsUpTo(S, n) ==
    IF n = 0 THEN {<<>>}
    ELSE LET shorter == SeqsUpTo(S, n - 1)
         IN shorter \cup {Append(s, x) : s \in {t \in shorter : Len(t) = n - 1}, x \in S}

(***************************************************************************)
(* euint32: an encrypted 32-bit value is an opaque handle; the decryption  *)
(* service is the only party that maps a handle back to its plaintext.     *)
(***************************************************************************)
Enc(v) == <<"euint32", v>>
Dec(h) == h[2]
Handles == {Enc(v) : v \in Plain}
toBytes32(h) == <<"bytes32", h[2]>>

VARIABLES patientData, simulationResults, decryptedResults,
          genomicModelParams, cellularModelParams, organModelParams,
          requestToPatientId, counterRequest, last, consumed,
          decryptionRequests, stale

VARIABLES store, account, twins, transactionStatus, call

appVars == <<store, account, twins, transactionStatus, call>>

storageVars == <<patientData, simulationResults, decryptedResults,
                 genomicModelParams, cellularModelParams, organModelParams,
                 requestToPatientId>>
contractVars == <<patientData, simulationResults, decryptedResults,
                  genomicModelParams, cellularModelParams, organModelParams,
                  requestToPatientId, counterRequest, last, consumed,
                  decryptionRequests, stale>>

(* Solidity's zero values of the three structs *)
EmptyHealthData ==
    [patientId |-> 0, genomicData |-> <<>>, cellularData |-> <<>>,
     organData |-> <<>>, biomarkers |-> <<>>, timestamp |-> 0]
EmptySimulationResult ==
    [diseaseRiskScore |-> Enc(0), drugResponse |-> <<>>, isComplete |-> FALSE]
EmptyDecryptedResult ==
    [diseaseRiskScore |-> 0, drugResponse |-> <<>>, isRevealed |-> FALSE]

(* The contract's storage as one value, so that a call is a function of it *)
Storage ==
    [patientData |-> patientData,
     simulationResults |-> simulationResults,
     decryptedResults |-> decryptedResults,
     genomicModelParams |-> genomicModelParams,
     cellularModelParams |-> cellularModelParams,
     organModelParams |-> organModelParams,
     requestToPatientId |-> requestToPatientId]

(* A call either returns (err = "ok", st = the storage it leaves) or       *)
(* reverts: the EVM discards every write of the call.                      *)
Return(st) == [err |-> "ok", st |-> st]
Revert(st0, msg) == [err |-> msg, st |-> st0]

(***************************************************************************)
(* ABI coding of uint32[] as 32-byte words: the offset of the array (0x20),*)
(* its length, then one word per element.  abi.decode reverts on bytes     *)
(* that are not such a coding.                                             *)
(***************************************************************************)
AbiEncode(arr) == <<32, Len(arr)>> \o arr
AbiDecode(words) ==
    IF Len(words) >= 2 /\ words[1] = 32 /\ Len(words) >= 2 + words[2]
    THEN [ok |-> TRUE, value |-> SubSeq(words, 3, 2 + words[2])]
    ELSE [ok |-> FALSE, value |-> <<>>]

(* The cleartext bytes a callback may carry: the coding of every array no  *)
(* longer than a request's ciphertext array, of the longer arrays whose    *)
(* neighbouring elements differ, and bytes that are no coding of an array  *)
Alternating(a) == \A i \in 1..(Len(a) - 1) : a[i] # a[i + 1]
Cleartexts ==
    {AbiEncode(a) : a \in {b \in SeqsUpTo(Plain, MaxResults) :
                              Len(b) <= 1 + MaxDrugs \/ Alternating(b)}}
        \cup {<<>>}
(* What a caller may hand to the callback: any cleartext with a proof that *)
(* verifies for it, or a cleartext with a proof that does not.             *)
CallbackInputs ==
    {<<cleartexts, TRUE>> : cleartexts \in Cleartexts}
        \cup {<<AbiEncode(a), FALSE>> : a \in {<<>>, <<MaxPlain, 0>>}}

(* modifier onlyAuthorized(patientId): a placeholder, the body is `_;` *)
onlyAuthorized(sender, patientId) == TRUE

(* submitHealthData also discarding the results computed from the data it *)
(* replaces                                                                *)
submitHealthData_resetsResults(st, patientId, genomic, cellular, organ, biomarkers, blockTimestamp) ==
    Return([st EXCEPT !.patientData[patientId] =
                          [patientId |-> patientId,
                           genomicData |-> genomic,
                           cellularData |-> cellular,
                           organData |-> organ,
                           biomarkers |-> biomarkers,
                           timestamp |-> blockTimestamp],
                      !.simulationResults[patientId] = EmptySimulationResult,
                      !.decryptedResults[patientId] = EmptyDecryptedResult])

(* function submitHealthData *)
submitHealthData(st, patientId, genomic, cellular, organ, biomarkers, blockTimestamp) ==
    Return([st EXCEPT !.patientData[patientId] =
                [patientId |-> patientId,
                 genomicData |-> genomic,
                 cellularData |-> cellular,
                 organData |-> organ,
                 biomarkers |-> biomarkers,
                 timestamp |-> blockTimestamp]])

(* function requestSimulation *)
requestSimulation(st, sender, patientId) ==
    IF ~onlyAuthorized(sender, patientId) THEN Revert(st, "Not authorized")
    ELSE IF ~(st.patientData[patientId].timestamp > 0)
    THEN Revert(st, "Patient data not found")
    ELSE Return(st)

(***************************************************************************)
(* euint32 arithmetic of the FHE library: on the plaintexts, modulo 2^32.  *)
(* A 32-bit plaintext is <<hi, lo>>, its two 16-bit halves, and the        *)
(* products are taken byte by byte so that no intermediate value passes    *)
(* 2^31.                                                                   *)
(***************************************************************************)
HalfWord == 65536
Byte == 256
U32(hi, lo) == <<hi, lo>>
Add32(a, b) ==
    LET lo == a[2] + b[2]
        hi == a[1] + b[1] + (lo \div HalfWord)
    IN U32(hi % HalfWord, lo % HalfWord)
(* x * y modulo 2^16 *)
MulMod16(x, y) ==
    ((x % Byte) * y + (((x \div Byte) * y) % Byte) * Byte) % HalfWord
Mul32(a, b) ==
    LET al0 == a[2] % Byte
        al1 == a[2] \div Byte
        bl0 == b[2] % Byte
        bl1 == b[2] \div Byte
        mid == al1 * bl0 + al0 * bl1
        low == (mid % Byte) * Byte + al0 * bl0
        high == al1 * bl1 + (mid \div Byte) + (low \div HalfWord)
    IN U32((high + MulMod16(a[1], b[2]) + MulMod16(a[2], b[1])) % HalfWord,
           low % HalfWord)
asEuint32(v) == Enc(U32(0, v % HalfWord))
add(a, b) == Enc(Add32(Dec(a), Dec(b)))
mul(a, b) == Enc(Mul32(Dec(a), Dec(b)))

(* function setModelParameters *)
setModelParameters(st, genomicParams, cellularParams, organParams) ==
    Return([st EXCEPT !.genomicModelParams = genomicParams,
                      !.cellularModelParams = cellularParams,
                      !.organModelParams = organParams])

(* A view call returns a value and leaves storage alone; an array read    *)
(* past the end of the array is Panic(0x32).                              *)
ReturnValue(st, v) == [err |-> "ok", st |-> st, value |-> v]
RevertValue(st, msg) == [err |-> msg, st |-> st, value |-> asEuint32(0)]
InBounds(arr, i) == i < Len(arr)

(* The loop of lines 172-176 with the test of line 173 left out *)
RECURSIVE genomicContribution_unguarded(_, _, _, _)
genomicContribution_unguarded(params, data, i, acc) ==
    IF ~(i < Len(params)) THEN [ok |-> TRUE, value |-> acc]
    ELSE IF ~InBounds(data, i) THEN [ok |-> FALSE, value |-> acc]
    ELSE genomicContribution_unguarded(params, data, i + 1,
                                       add(acc, mul(params[i + 1], data[i + 1])))

(* Lines 172-176 (and 191-195): for (i = 0; i < genomicModelParams.length; *)
(* i++) if (i < data.genomicData.length) acc = add(acc, mul(..)).  Indices *)
(* of the code count from 0, those of a sequence from 1.                   *)
RECURSIVE genomicContribution(_, _, _, _)
genomicContribution(params, data, i, acc) ==
    IF ~(i < Len(params)) THEN [ok |-> TRUE, value |-> acc]
    ELSE IF i < Len(data)
         THEN IF ~InBounds(params, i) \/ ~InBounds(data, i)
              THEN [ok |-> FALSE, value |-> acc]
              ELSE genomicContribution(params, data, i + 1,
                                       add(acc, mul(params[i + 1], data[i + 1])))
         ELSE genomicContribution(params, data, i + 1, acc)

(* function predictDiseaseRisk *)
predictDiseaseRisk(st, patientId) ==
    LET data == st.patientData[patientId]
        risk == genomicContribution(st.genomicModelParams, data.genomicData, 0,
                                    asEuint32(0))
    IN IF ~(data.timestamp > 0) THEN RevertValue(st, "Patient data not found")
       ELSE IF ~risk.ok THEN RevertValue(st, "Panic(0x32)")
       ELSE ReturnValue(st, risk.value)

(* predictDrugResponse with the test of line 197 left out *)
predictDrugResponse_noIndexTest(st, patientId, drugIndex) ==
    LET data == st.patientData[patientId]
        genomic == genomicContribution(st.genomicModelParams, data.genomicData, 0,
                                       asEuint32(0))
    IN IF ~(data.timestamp > 0) THEN RevertValue(st, "Patient data not found")
       ELSE IF ~genomic.ok THEN RevertValue(st, "Panic(0x32)")
       ELSE IF ~InBounds(data.biomarkers, drugIndex) THEN RevertValue(st, "Panic(0x32)")
       ELSE ReturnValue(st, add(genomic.value, data.biomarkers[drugIndex + 1]))

(* function predictDrugResponse *)
predictDrugResponse(st, patientId, drugIndex) ==
    LET data == st.patientData[patientId]
        genomic == genomicContribution(st.genomicModelParams, data.genomicData, 0,
                                       asEuint32(0))
    IN IF ~(data.timestamp > 0) THEN RevertValue(st, "Patient data not found")
       ELSE IF ~genomic.ok THEN RevertValue(st, "Panic(0x32)")
       ELSE IF drugIndex < Len(data.biomarkers)
       THEN ReturnValue(st, add(genomic.value, data.biomarkers[drugIndex + 1]))
       ELSE ReturnValue(st, genomic.value)

(* getEncryptedHealthData answering for a patient without data *)
getEncryptedHealthData_noRequire(st, patientId) ==
    LET data == st.patientData[patientId]
    IN [err |-> "ok", st |-> st,
        value |-> <<data.genomicData, data.cellularData, data.organData, data.biomarkers>>]

(* function getEncryptedHealthData *)
getEncryptedHealthData(st, patientId) ==
    LET data == st.patientData[patientId]
    IN IF ~(data.timestamp > 0)
       THEN [err |-> "Patient data not found", st |-> st,
             value |-> <<<<>>, <<>>, <<>>, <<>>>>]
       ELSE [err |-> "ok", st |-> st,
             value |-> <<data.genomicData, data.cellularData, data.organData,
                         data.biomarkers>>]

(* function storeSimulationResult: both writes are unconditional *)
storeSimulationResult(st, patientId, diseaseRisk, drugResponses) ==
    LET st1 == [st EXCEPT !.simulationResults[patientId] =
                    [diseaseRiskScore |-> diseaseRisk,
                     drugResponse |-> drugResponses,
                     isComplete |-> TRUE]]
        st2 == [st1 EXCEPT !.decryptedResults[patientId] =
                    [diseaseRiskScore |-> 0,
                     drugResponse |-> <<>>,
                     isRevealed |-> FALSE]]
    IN Return(st2)

(* The ciphertext array with the risk score placed after the drug responses *)
flattenCiphertexts_riskLast(result) ==
    LET totalElements == 1 + Len(result.drugResponse)
    IN [k \in 1..totalElements |->
            IF k = totalElements THEN toBytes32(result.diseaseRiskScore)
            ELSE toBytes32(result.drugResponse[k])]

(* The ciphertext array requestResultDecryption builds (lines 119-126) *)
flattenCiphertexts(result) ==
    LET totalElements == 1 + Len(result.drugResponse)
    IN [k \in 1..totalElements |->
            IF k = 1 THEN toBytes32(result.diseaseRiskScore)
            ELSE toBytes32(result.drugResponse[k - 1])]

(* requestResultDecryption without its "Simulation not complete" require *)
requestResultDecryption_noCompleteCheck(st, sender, patientId, reqId) ==
    LET result == st.simulationResults[patientId]
    IN IF st.decryptedResults[patientId].isRevealed
       THEN [err |-> "Already revealed", st |-> st, ciphertexts |-> <<>>]
       ELSE [err |-> "ok",
             st |-> [st EXCEPT !.requestToPatientId[reqId] = patientId],
             ciphertexts |-> flattenCiphertexts(result)]

(* requestResultDecryption refusing a patient who already has a request *)
requestResultDecryption_oneOutstanding(st, sender, patientId, reqId) ==
    LET result == st.simulationResults[patientId]
    IN IF ~result.isComplete
       THEN [err |-> "Simulation not complete", st |-> st, ciphertexts |-> <<>>]
       ELSE IF st.decryptedResults[patientId].isRevealed
       THEN [err |-> "Already revealed", st |-> st, ciphertexts |-> <<>>]
       ELSE IF patientId # 0 /\ \E q \in RequestIds : st.requestToPatientId[q] = patientId
       THEN [err |-> "Already requested", st |-> st, ciphertexts |-> <<>>]
       ELSE [err |-> "ok",
             st |-> [st EXCEPT !.requestToPatientId[reqId] = patientId],
             ciphertexts |-> flattenCiphertexts(result)]

(* requestResultDecryption without its "Already revealed" require *)
requestResultDecryption_noRevealedGuard(st, sender, patientId, reqId) ==
    LET result == st.simulationResults[patientId]
    IN IF ~result.isComplete
       THEN [err |-> "Simulation not complete", st |-> st, ciphertexts |-> <<>>]
       ELSE [err |-> "ok",
             st |-> [st EXCEPT !.requestToPatientId[reqId] = patientId],
             ciphertexts |-> flattenCiphertexts(result)]

(* function requestResultDecryption; reqId is what FHE.requestDecryption   *)
(* returns for this call.                                                  *)
requestResultDecryption(st, sender, patientId, reqId) ==
    LET result == st.simulationResults[patientId]
    IN IF ~onlyAuthorized(sender, patientId)
       THEN [err |-> "Not authorized", st |-> st, ciphertexts |-> <<>>]
       ELSE IF ~result.isComplete
       THEN [err |-> "Simulation not complete", st |-> st, ciphertexts |-> <<>>]
       ELSE IF st.decryptedResults[patientId].isRevealed
       THEN [err |-> "Already revealed", st |-> st, ciphertexts |-> <<>>]
       ELSE [err |-> "ok",
             st |-> [st EXCEPT !.requestToPatientId[reqId] = patientId],
             ciphertexts |-> flattenCiphertexts(result)]

(* writeDecrypted taking an empty array as a result without values *)
writeDecrypted_emptyAccepted(st, patientId, results) ==
    Return([st EXCEPT !.decryptedResults[patientId] =
                [diseaseRiskScore |-> IF Len(results) = 0 THEN 0 ELSE results[1],
                 drugResponse |-> [i \in 1..(Len(results) - 1) |-> results[i + 1]],
                 isRevealed |-> TRUE]])

(* writeDecrypted with the copy loop reading results[i-1] for drugResponse[i-1] *)
writeDecrypted_offByOne(st, patientId, results) ==
    IF Len(results) = 0 THEN Revert(st, "Panic(0x32)")
    ELSE Return([st EXCEPT !.decryptedResults[patientId] =
                    [diseaseRiskScore |-> results[1],
                     drugResponse |-> [i \in 1..(Len(results) - 1) |-> results[i]],
                     isRevealed |-> TRUE]])

(* Lines 150-159: the decoded array written into the DecryptedResult.      *)
(* results[0] on an empty array is an out-of-bounds read: Panic(0x32).     *)
writeDecrypted(st, patientId, results) ==
    IF Len(results) = 0 THEN Revert(st, "Panic(0x32)")
    ELSE Return([st EXCEPT !.decryptedResults[patientId] =
                    [diseaseRiskScore |-> results[1],
                     drugResponse |-> [i \in 1..(Len(results) - 1) |-> results[i + 1]],
                     isRevealed |-> TRUE]])

(* decryptSimulationResult without its "Already revealed" require *)
decryptSimulationResult_noRevealedGuard(st, requestId, cleartexts, proofValid) ==
    LET patientId == st.requestToPatientId[requestId]
        decoded == AbiDecode(cleartexts)
    IN IF ~(patientId # 0) THEN Revert(st, "Invalid request")
       ELSE IF ~proofValid THEN Revert(st, "checkSignatures")
       ELSE IF ~decoded.ok THEN Revert(st, "abi.decode")
       ELSE writeDecrypted(st, patientId, decoded.value)

(* decryptSimulationResult without its "Invalid request" require *)
decryptSimulationResult_noRequestCheck(st, requestId, cleartexts, proofValid) ==
    LET patientId == st.requestToPatientId[requestId]
        decoded == AbiDecode(cleartexts)
    IN IF st.decryptedResults[patientId].isRevealed
       THEN Revert(st, "Already revealed")
       ELSE IF ~proofValid THEN Revert(st, "checkSignatures")
       ELSE IF ~decoded.ok THEN Revert(st, "abi.decode")
       ELSE writeDecrypted(st, patientId, decoded.value)

(* decryptSimulationResult without the call of FHE.checkSignatures *)
decryptSimulationResult_noProofCheck(st, requestId, cleartexts, proofValid) ==
    LET patientId == st.requestToPatientId[requestId]
        decoded == AbiDecode(cleartexts)
    IN IF ~(patientId # 0) THEN Revert(st, "Invalid request")
       ELSE IF st.decryptedResults[patientId].isRevealed
       THEN Revert(st, "Already revealed")
       ELSE IF ~decoded.ok THEN Revert(st, "abi.decode")
       ELSE writeDecrypted(st, patientId, decoded.value)

(* function decryptSimulationResult; proofValid is the outcome of          *)
(* FHE.checkSignatures(requestId, cleartexts, proof), which reverts on a   *)
(* proof that does not verify.                                             *)
decryptSimulationResult(st, requestId, cleartexts, proofValid) ==
    LET patientId == st.requestToPatientId[requestId]
        decoded == AbiDecode(cleartexts)
    IN IF ~(patientId # 0) THEN Revert(st, "Invalid request")
       ELSE IF st.decryptedResults[patientId].isRevealed
       THEN Revert(st, "Already revealed")
       ELSE IF ~proofValid THEN Revert(st, "checkSignatures")
       ELSE IF ~decoded.ok THEN Revert(st, "abi.decode")
       ELSE writeDecrypted(st, patientId, decoded.value)

(***************************************************************************)
(* The contract as a state machine: one action per external call.  `last`  *)
(* records the latest call and its outcome; `consumed` is the history of   *)
(* request ids whose callback has succeeded; `decryptionRequests` holds,   *)
(* for each request id, the ciphertexts handed to the decryption service;  *)
(* `stale` is the history of request ids issued for a simulation result    *)
(* that has been stored anew since.  The contract reads none of them.      *)
(***************************************************************************)
NoCall ==
    [op |-> "none", sender |-> "patient", patientId |-> 0, requestId |-> 0,
     proofValid |-> TRUE, results |-> <<>>, err |-> "ok",
     drugIndex |-> 0, value |-> Enc(U32(0, 0)), returned |-> <<>>]

Commit(r) ==
    /\ patientData' = r.st.patientData
    /\ simulationResults' = r.st.simulationResults
    /\ decryptedResults' = r.st.decryptedResults
    /\ genomicModelParams' = r.st.genomicModelParams
    /\ cellularModelParams' = r.st.cellularModelParams
    /\ organModelParams' = r.st.organModelParams
    /\ requestToPatientId' = r.st.requestToPatientId

(* The vectors of patient data and of model parameters: plaintexts chosen  *)
(* so that products and sums pass 2^32.                                    *)
DataPlain == {U32(0, 2), U32(HalfWord - 1, HalfWord - 1)}
DataHandles == {Enc(v) : v \in DataPlain}
DataVectors == SeqsUpTo(DataHandles, MaxDataLen)
ScaleVectors == SeqsUpTo(DataHandles, MaxScaleLen)
(* Biomarker vectors of every length, neighbouring elements different *)
BiomarkerVectors ==
    {[i \in 1..n |-> IF i % 2 = 1 THEN Enc(U32(0, 2))
                                  ELSE Enc(U32(HalfWord - 1, HalfWord - 1))] :
        n \in 0..MaxDataLen}
DrugIndexes == 0..MaxDataLen

(* Genomic vectors of every length up to MaxVecLen; the other three       *)
(* vectors are drawn from ScaleVectors                                     *)
HealthVectors == {[i \in 1..n |-> Enc(MaxPlain)] : n \in 0..MaxVecLen}
SubmitHealthData ==
    \E patientId \in PatientIds, genomic \in HealthVectors, cellular \in ScaleVectors,
       organ \in ScaleVectors, biomarkers \in ScaleVectors,
       blockTimestamp \in Timestamps :
        LET r == submitHealthData(Storage, patientId, genomic, cellular, organ,
                                  biomarkers, blockTimestamp)
        IN /\ Commit(r)
           /\ last' = [NoCall EXCEPT !.op = "submitHealthData",
                                     !.patientId = patientId, !.err = r.err]
           /\ UNCHANGED <<counterRequest, consumed, decryptionRequests, stale, appVars>>

RequestSimulation ==
    \E patientId \in PatientIds, sender \in Senders :
        LET r == requestSimulation(Storage, sender, patientId)
        IN /\ Commit(r)
           /\ last' = [NoCall EXCEPT !.op = "requestSimulation", !.sender = sender,
                                     !.patientId = patientId, !.err = r.err]
           /\ UNCHANGED <<counterRequest, consumed, decryptionRequests, stale, appVars>>

(* Drug-response vectors of every length up to MaxDrugs *)
DrugResponseVectors == {[i \in 1..n |-> Enc(MaxPlain)] : n \in 0..MaxDrugs}
StoreSimulationResult ==
    \E patientId \in PatientIds, diseaseRisk \in Handles,
       drugResponses \in DrugResponseVectors :
        LET r == storeSimulationResult(Storage, patientId, diseaseRisk, drugResponses)
        IN /\ Commit(r)
           /\ last' = [NoCall EXCEPT !.op = "storeSimulationResult",
                                     !.patientId = patientId, !.err = r.err]
           /\ stale' = stale \cup {q \in RequestIds : /\ q < counterRequest
                                                      /\ requestToPatientId[q] = patientId}
           /\ UNCHANGED <<counterRequest, consumed, decryptionRequests, appVars>>

(* FHE.requestDecryption hands the ciphertexts to the decryption service   *)
(* and returns the service's next request id.                              *)
RequestResultDecryption ==
    \E patientId \in PatientIds, sender \in Senders :
        LET reqId == counterRequest
            r == requestResultDecryption(Storage, sender, patientId, reqId)
        IN /\ r.err = "ok" => counterRequest < MaxRequests
           /\ Commit(r)
           /\ UNCHANGED <<consumed, stale, appVars>>
           /\ IF r.err = "ok"
              THEN /\ counterRequest' = counterRequest + 1
                   /\ decryptionRequests' =
                          [decryptionRequests EXCEPT ![reqId] = r.ciphertexts]
                   /\ last' = [NoCall EXCEPT !.op = "requestResultDecryption",
                                  !.sender = sender, !.patientId = patientId,
                                  !.requestId = reqId, !.err = r.err]
              ELSE /\ UNCHANGED <<counterRequest, decryptionRequests>>
                   /\ last' = [NoCall EXCEPT !.op = "requestResultDecryption",
                                  !.sender = sender, !.patientId = patientId,
                                  !.err = r.err]

(* The callback is a public function: any account may call it with any     *)
(* request id, cleartext bytes and proof.                                  *)
DecryptSimulationResult ==
    \E requestId \in RequestIds, input \in CallbackInputs :
        LET cleartexts == input[1]
            proofValid == input[2]
            r == decryptSimulationResult(Storage, requestId, cleartexts, proofValid)
        IN /\ Commit(r)
           /\ last' = [NoCall EXCEPT !.op = "decryptSimulationResult",
                          !.patientId = requestToPatientId[requestId],
                          !.requestId = requestId,
                          !.proofValid = proofValid,
                          !.results = IF r.err = "ok" THEN AbiDecode(cleartexts).value
                                      ELSE <<>>,
                          !.err = r.err]
           /\ consumed' = IF r.err = "ok" THEN consumed \cup {requestId} ELSE consumed
           /\ UNCHANGED <<counterRequest, decryptionRequests, stale, appVars>>

(* submitHealthData with genomic data and biomarkers of several lengths *)
SubmitPatientData ==
    \E patientId \in PatientIds, genomic \in DataVectors, cellular \in ScaleVectors,
       organ \in ScaleVectors, biomarkers \in BiomarkerVectors,
       blockTimestamp \in Timestamps :
        LET r == submitHealthData(Storage, patientId, genomic, cellular, organ,
                                  biomarkers, blockTimestamp)
        IN /\ Commit(r)
           /\ last' = [NoCall EXCEPT !.op = "submitHealthData",
                                     !.patientId = patientId, !.err = r.err]
           /\ UNCHANGED <<counterRequest, consumed, decryptionRequests, stale, appVars>>

SetModelParameters ==
    \E genomicParams \in DataVectors, cellularParams \in ScaleVectors,
       organParams \in ScaleVectors :
        LET r == setModelParameters(Storage, genomicParams, cellularParams, organParams)
        IN /\ Commit(r)
           /\ last' = [NoCall EXCEPT !.op = "setModelParameters", !.err = r.err]
           /\ UNCHANGED <<counterRequest, consumed, decryptionRequests, stale, appVars>>

PredictDiseaseRisk ==
    \E patientId \in PatientIds :
        LET r == predictDiseaseRisk(Storage, patientId)
        IN /\ Commit(r)
           /\ last' = [NoCall EXCEPT !.op = "predictDiseaseRisk",
                                     !.patientId = patientId, !.err = r.err,
                                     !.value = r.value]
           /\ UNCHANGED <<counterRequest, consumed, decryptionRequests, stale, appVars>>

PredictDrugResponse ==
    \E patientId \in PatientIds, drugIndex \in DrugIndexes :
        LET r == predictDrugResponse(Storage, patientId, drugIndex)
        IN /\ Commit(r)
           /\ last' = [NoCall EXCEPT !.op = "predictDrugResponse",
                                     !.patientId = patientId, !.drugIndex = drugIndex,
                                     !.err = r.err, !.value = r.value]
           /\ UNCHANGED <<counterRequest, consumed, decryptionRequests, stale, appVars>>

GetEncryptedHealthData ==
    \E patientId \in PatientIds :
        LET r == getEncryptedHealthData(Storage, patientId)
        IN /\ Commit(r)
           /\ last' = [NoCall EXCEPT !.op = "getEncryptedHealthData",
                                     !.patientId = patientId, !.err = r.err,
                                     !.returned = r.value]
           /\ UNCHANGED <<counterRequest, consumed, decryptionRequests, stale, appVars>>

(* The decryption service delivers its answer to a request it holds: the   *)
(* callback called with the decryption of the request's ciphertexts and a  *)
(* proof that verifies.                                                    *)
DeliverDecryption ==
    \E requestId \in RequestIds :
        /\ requestId < counterRequest
        /\ LET cleartexts == AbiEncode([k \in 1..Len(decryptionRequests[requestId]) |->
                                           decryptionRequests[requestId][k][2]])
               r == decryptSimulationResult(Storage, requestId, cleartexts, TRUE)
           IN /\ Commit(r)
              /\ last' = [NoCall EXCEPT !.op = "decryptSimulationResult",
                             !.patientId = requestToPatientId[requestId],
                             !.requestId = requestId,
                             !.results = IF r.err = "ok" THEN AbiDecode(cleartexts).value
                                         ELSE <<>>,
                             !.err = r.err]
              /\ consumed' = IF r.err = "ok" THEN consumed \cup {requestId} ELSE consumed
              /\ UNCHANGED <<counterRequest, decryptionRequests, stale, appVars>>

ContractInit ==
    /\ patientData = [p \in PatientIds |-> EmptyHealthData]
    /\ simulationResults = [p \in PatientIds |-> EmptySimulationResult]
    /\ decryptedResults = [p \in PatientIds |-> EmptyDecryptedResult]
    /\ genomicModelParams = <<>>
    /\ cellularModelParams = <<>>
    /\ organModelParams = <<>>
    /\ requestToPatientId = [r \in RequestIds |-> 0]
    /\ counterRequest = 0
    /\ last = NoCall
    /\ consumed = {}
    /\ decryptionRequests = [r \in RequestIds |-> <<>>]
    /\ stale = {}


(***************************************************************************)
(* The web client (App.tsx) and the record store it drives.                *)
(***************************************************************************)
Clients == 1..MaxClients
Accounts == {"0xA"}
Scales == {"gene"}
Suffixes == {"a"}
(* Date.now() in milliseconds, as read by a client's own clock *)
ClockValues == {1000 * t : t \in 1..MaxClock}

(* `${Date.now()}-${Math.random().toString(36).substring(2, 9)}` *)
MakeTwinId(now, suffix) == ToString(now) \o "-" \o suffix
TwinIds == {MakeTwinId(now, suffix) : now \in ClockValues, suffix \in Suffixes}
TwinKey(twinId) == "twin_" \o twinId
StoreKeys == {"twin_keys"} \cup {TwinKey(id) : id \in TwinIds}

(* JavaScript values: an array is its items, an object its members in      *)
(* insertion order, each a <<name, value>> pair.                           *)
JsArray(items) == [type |-> "array", items |-> items]
JsObject(members) == [type |-> "object", items |-> members]

(* JSON text as a sequence of tokens *)
JSONstringify(v) ==
    IF v.type = "array" THEN <<"[">> \o v.items \o <<"]">>
    ELSE <<"{">> \o v.items \o <<"}">>
JSONparse(text) ==
    IF Len(text) >= 2 /\ text[1] = "[" /\ text[Len(text)] = "]"
    THEN [ok |-> TRUE, value |-> JsArray(SubSeq(text, 2, Len(text) - 1))]
    ELSE IF Len(text) >= 2 /\ text[1] = "{" /\ text[Len(text)] = "}"
    THEN [ok |-> TRUE, value |-> JsObject(SubSeq(text, 2, Len(text) - 1))]
    ELSE [ok |-> FALSE, value |-> JsArray(<<>>)]

(* ethers.toUtf8Bytes / ethers.toUtf8String: one byte group per token *)
toUtf8Bytes(text) == [i \in 1..Len(text) |-> <<"utf8", text[i]>>]
toUtf8String(bytes) == [i \in 1..Len(bytes) |-> bytes[i][2]]

btoa(text) == <<"base64", text>>

(* Reading and writing a member of a JavaScript object *)
HasMember(obj, name) == \E i \in 1..Len(obj.items) : obj.items[i][1] = name
GetMember(obj, name) ==
    LET i == CHOOSE i \in 1..Len(obj.items) : obj.items[i][1] = name
    IN obj.items[i][2]
(* { ...obj, name: value }: an existing member keeps its place *)
SpreadWith(obj, name, value) ==
    IF HasMember(obj, name)
    THEN JsObject([i \in 1..Len(obj.items) |->
                      IF obj.items[i][1] = name THEN <<name, value>> ELSE obj.items[i]])
    ELSE JsObject(Append(obj.items, <<name, value>>))

(* The record store: contract.getData / contract.setData *)
getData(st, key) == st[key]
setData(st, key, value) == [st EXCEPT ![key] = value]


Idle ==
    [op |-> "none", pc |-> "idle", twinId |-> "", twinData |-> JsObject(<<>>),
     keys |-> <<>>]

(* submitTwin, lines 154-169: the form, the id and the record to store *)
submitTwin_twinData(newTwinData, owner, now) ==
    LET encryptedData == <<"FHE-", btoa(JSONstringify(newTwinData))>>
    IN JsObject(<< <<"data", encryptedData>>,
                   <<"timestamp", now \div 1000>>,
                   <<"owner", owner>>,
                   <<"scale", GetMember(newTwinData, "scale")>>,
                   <<"status", "pending">> >>)

(* lines 177-188 (and 93-102): the index as read, [] when empty or unparsable *)
readKeys(keysBytes) ==
    IF Len(keysBytes) > 0
    THEN LET parsed == JSONparse(toUtf8String(keysBytes))
         IN IF parsed.ok THEN parsed.value.items ELSE <<>>
    ELSE <<>>

(* keys.push of an id other than the one whose record was written *)
submitTwin_pushKey_other(keys, twinId) ==
    Append(keys, CHOOSE id \in TwinIds : id # twinId)

(* submitTwin, line 188: keys.push(twinId) *)
submitTwin_pushKey(keys, twinId) == Append(keys, twinId)

(* The index write as an append to the index as stored at write time *)
submitTwin_setKeys_merged(st, keys) ==
    LET stored == readKeys(getData(st, "twin_keys"))
        fresh == SelectSeq(keys, LAMBDA k : \A i \in 1..Len(stored) : stored[i] # k)
    IN setData(st, "twin_keys", toUtf8Bytes(JSONstringify(JsArray(stored \o fresh))))

(* submitTwin, lines 190-193: the whole array as read and extended *)
submitTwin_setKeys(st, keys) ==
    setData(st, "twin_keys", toUtf8Bytes(JSONstringify(JsArray(keys))))

(* activateTwin building the record anew with the time of activation *)
activateTwin_updatedTwin_restamped(twinData) ==
    SpreadWith(SpreadWith(twinData, "status", "active"), "timestamp", 0)

(* activateTwin adding a second status member instead of replacing it *)
activateTwin_updatedTwin_appended(twinData) ==
    JsObject(Append(twinData.items, <<"status", "active">>))

(* activateTwin, lines 259-262 *)
activateTwin_updatedTwin(twinData) == SpreadWith(twinData, "status", "active")
(* archiveTwin, lines 321-324 *)
archiveTwin_updatedTwin(twinData) == SpreadWith(twinData, "status", "archived")

(* isOwner *)
toLowerCase(address) == IF address = "0xA" THEN "0xa" ELSE IF address = "0xB" THEN "0xb" ELSE address
isOwner(acc, address) == toLowerCase(acc) = toLowerCase(address)

(* loadTwins, lines 104-130: one DigitalTwin per index entry whose record  *)
(* is present and parses, then sorted by timestamp, newest first.          *)
loadTwins_entry(st, key) ==
    LET twinBytes == getData(st, TwinKey(key))
        parsed == JSONparse(toUtf8String(twinBytes))
        twinData == parsed.value
    IN IF Len(twinBytes) > 0 /\ parsed.ok
       THEN << [id |-> key,
                encryptedData |-> GetMember(twinData, "data"),
                timestamp |-> GetMember(twinData, "timestamp"),
                owner |-> GetMember(twinData, "owner"),
                scale |-> GetMember(twinData, "scale"),
                status |-> IF HasMember(twinData, "status")
                           THEN GetMember(twinData, "status") ELSE "pending"] >>
       ELSE <<>>

RECURSIVE loadTwins_list(_, _)
loadTwins_list(st, keys) ==
    IF keys = <<>> THEN <<>>
    ELSE loadTwins_entry(st, Head(keys)) \o loadTwins_list(st, Tail(keys))

(* list.sort((a, b) => b.timestamp - a.timestamp): a stable sort *)
RECURSIVE InsertByTimestamp(_, _)
InsertByTimestamp(sorted, t) ==
    IF sorted = <<>> THEN <<t>>
    ELSE IF Head(sorted).timestamp >= t.timestamp
         THEN <<Head(sorted)>> \o InsertByTimestamp(Tail(sorted), t)
         ELSE <<t>> \o sorted
RECURSIVE sortByTimestampDesc(_)
sortByTimestampDesc(list) ==
    IF list = <<>> THEN <<>>
    ELSE InsertByTimestamp(sortByTimestampDesc(SubSeq(list, 1, Len(list) - 1)),
                           list[Len(list)])


(***************************************************************************)
(* The client as a state machine: every handler is cut at its awaits, and  *)
(* call[c] holds the handler client c is in, its position and its locals.  *)
(***************************************************************************)
Status(status, message) == [visible |-> TRUE, status |-> status]
Hidden == [visible |-> FALSE, status |-> "pending"]

IndexKeys == readKeys(getData(store, "twin_keys"))
Creating == {c \in Clients : call[c].op = "submitTwin"
                              /\ call[c].pc \in {"submit_setTwin", "submit_getKeys", "submit_setKeys"}}

(* onWalletSelect / accountsChanged: the wallet hands over an account *)
Connect(c) ==
    \E acc \in Accounts :
        /\ account[c] # acc
        /\ account' = [account EXCEPT ![c] = acc]
        /\ UNCHANGED <<store, twins, transactionStatus, call, contractVars>>

(* submitTwin up to its first await *)
SubmitStart(c) ==
    /\ call[c].pc = "idle"
    /\ account[c] # ""
    /\ Len(IndexKeys) + Cardinality(Creating) < MaxKeys
    /\ \E now \in ClockValues, suffix \in Suffixes, scale \in Scales :
          LET newTwinData == JsObject(<< <<"scale", scale>>, <<"description", "">>,
                                         <<"healthData", "">> >>)
          IN call' = [call EXCEPT ![c] =
                        [Idle EXCEPT !.op = "submitTwin", !.pc = "submit_setTwin",
                            !.twinId = MakeTwinId(now, suffix),
                            !.twinData = submitTwin_twinData(newTwinData, account[c], now)]]
    /\ transactionStatus' = [transactionStatus EXCEPT ![c] =
                                Status("pending", "Encrypting health data with FHE...")]
    /\ UNCHANGED <<store, account, twins, contractVars>>

(* lines 172-175 *)
SubmitSetTwin(c) ==
    /\ call[c].pc = "submit_setTwin"
    /\ store' = setData(store, TwinKey(call[c].twinId),
                        toUtf8Bytes(JSONstringify(call[c].twinData)))
    /\ call' = [call EXCEPT ![c].pc = "submit_getKeys"]
    /\ UNCHANGED <<account, twins, transactionStatus, contractVars>>

(* lines 177-188 *)
SubmitGetKeys(c) ==
    /\ call[c].pc = "submit_getKeys"
    /\ call' = [call EXCEPT ![c].pc = "submit_setKeys",
                            ![c].keys = submitTwin_pushKey(readKeys(getData(store, "twin_keys")),
                                                           call[c].twinId)]
    /\ UNCHANGED <<store, account, twins, transactionStatus, contractVars>>

(* lines 190-201 *)
SubmitSetKeys(c) ==
    /\ call[c].pc = "submit_setKeys"
    /\ store' = submitTwin_setKeys(store, call[c].keys)
    /\ transactionStatus' = [transactionStatus EXCEPT ![c] =
                                Status("success", "Encrypted health data submitted securely!")]
    /\ call' = [call EXCEPT ![c].pc = "load_getKeys"]
    /\ UNCHANGED <<account, twins, contractVars>>

(* activateTwin / archiveTwin are offered for a twin of the loaded list    *)
(* that the account owns and that is listed as pending (lines 589-606).    *)
Offered(c, twinId) ==
    \E i \in 1..Len(twins[c]) :
        /\ twins[c][i].id = twinId
        /\ isOwner(account[c], twins[c][i].owner)
        /\ twins[c][i].status = "pending"

ActivateStart(c) ==
    /\ call[c].pc = "idle"
    /\ account[c] # ""
    /\ \E twinId \in TwinIds :
          /\ Offered(c, twinId)
          /\ call' = [call EXCEPT ![c] =
                        [Idle EXCEPT !.op = "activateTwin", !.pc = "transition_getTwin",
                                     !.twinId = twinId]]
    /\ transactionStatus' = [transactionStatus EXCEPT ![c] =
                                Status("pending", "Processing encrypted health data with FHE...")]
    /\ UNCHANGED <<store, account, twins, contractVars>>

ArchiveStart(c) ==
    /\ call[c].pc = "idle"
    /\ account[c] # ""
    /\ \E twinId \in TwinIds :
          /\ Offered(c, twinId)
          /\ call' = [call EXCEPT ![c] =
                        [Idle EXCEPT !.op = "archiveTwin", !.pc = "transition_getTwin",
                                     !.twinId = twinId]]
    /\ transactionStatus' = [transactionStatus EXCEPT ![c] =
                                Status("pending", "Processing encrypted health data with FHE...")]
    /\ UNCHANGED <<store, account, twins, contractVars>>

(* lines 252-257 and 314-319: read the record and parse it *)
TransitionGetTwin(c) ==
    /\ call[c].pc = "transition_getTwin"
    /\ LET twinBytes == getData(store, TwinKey(call[c].twinId))
           parsed == JSONparse(toUtf8String(twinBytes))
           failed == IF call[c].op = "activateTwin" THEN "Activation failed: "
                     ELSE "Archiving failed: "
       IN IF Len(twinBytes) = 0
          THEN /\ transactionStatus' = [transactionStatus EXCEPT ![c] =
                                           Status("error", failed \o "Twin not found")]
               /\ call' = [call EXCEPT ![c] = Idle]
          ELSE IF ~parsed.ok
          THEN /\ transactionStatus' = [transactionStatus EXCEPT ![c] =
                                           Status("error", failed \o "SyntaxError")]
               /\ call' = [call EXCEPT ![c] = Idle]
          ELSE /\ call' = [call EXCEPT ![c].pc = "transition_setTwin",
                                       ![c].twinData = parsed.value]
               /\ UNCHANGED transactionStatus
    /\ UNCHANGED <<store, account, twins, contractVars>>

(* lines 259-275 and 321-337: patch the status of the record read (a pure  *)
(* step on the handler's locals) and write the whole record back           *)
TransitionSetTwin(c) ==
    /\ call[c].pc = "transition_setTwin"
    /\ LET updatedTwin == IF call[c].op = "activateTwin"
                          THEN activateTwin_updatedTwin(call[c].twinData)
                          ELSE archiveTwin_updatedTwin(call[c].twinData)
       IN store' = setData(store, TwinKey(call[c].twinId),
                           toUtf8Bytes(JSONstringify(updatedTwin)))
    /\ transactionStatus' = [transactionStatus EXCEPT ![c] =
          Status("success", IF call[c].op = "activateTwin"
                            THEN "FHE activation completed successfully!"
                            ELSE "FHE archiving completed successfully!")]
    /\ call' = [call EXCEPT ![c].pc = "load_getKeys"]
    /\ UNCHANGED <<account, twins, contractVars>>

(* An awaited contract call of submitTwin, activateTwin or archiveTwin     *)
(* rejects (the user declines to sign, the transaction or the read fails): *)
(* the catch block reports it and the handler returns.                     *)
Throw(c) ==
    /\ call[c].pc \in {"submit_setTwin", "submit_getKeys", "submit_setKeys",
                       "transition_getTwin", "transition_setTwin"}
    /\ transactionStatus' = [transactionStatus EXCEPT ![c] =
          Status("error", IF call[c].op = "submitTwin" THEN "Submission failed: "
                          ELSE IF call[c].op = "activateTwin" THEN "Activation failed: "
                          ELSE "Archiving failed: ")]
    /\ call' = [call EXCEPT ![c] = Idle]
    /\ UNCHANGED <<store, account, twins, contractVars>>

(* loadTwins called on its own (mount, refresh) *)
LoadStart(c) ==
    /\ call[c].pc = "idle"
    /\ call' = [call EXCEPT ![c] = [Idle EXCEPT !.op = "loadTwins", !.pc = "load_getKeys"]]
    /\ UNCHANGED <<store, account, twins, transactionStatus, contractVars>>

(* loadTwins, lines 93-102 *)
LoadGetKeys(c) ==
    /\ call[c].pc = "load_getKeys"
    /\ call' = [call EXCEPT ![c].pc = "load_getTwins",
                            ![c].keys = readKeys(getData(store, "twin_keys"))]
    /\ UNCHANGED <<store, account, twins, transactionStatus, contractVars>>

(* loadTwins, lines 104-130; the handler that awaited it returns *)
LoadGetTwins(c) ==
    /\ call[c].pc = "load_getTwins"
    /\ twins' = [twins EXCEPT ![c] = sortByTimestampDesc(loadTwins_list(store, call[c].keys))]
    /\ call' = [call EXCEPT ![c] = Idle]
    /\ UNCHANGED <<store, account, transactionStatus, contractVars>>

(* loadTwins, lines 131-133: the read of the index rejects, the list stays *)
LoadThrow(c) ==
    /\ call[c].pc = "load_getKeys"
    /\ call' = [call EXCEPT ![c] = Idle]
    /\ UNCHANGED <<store, account, twins, transactionStatus, contractVars>>

AppInit ==
    /\ store = [k \in StoreKeys |-> <<>>]
    /\ account = [c \in Clients |-> ""]
    /\ twins = [c \in Clients |-> <<>>]
    /\ transactionStatus = [c \in Clients |-> Hidden]
    /\ call = [c \in Clients |-> Idle]

vars == <<contractVars, appVars>>

Init == ContractInit /\ AppInit

(* The decryption protocol: the calls that read or write simulationResults, *)
(* decryptedResults and requestToPatientId, in any order.                   *)
Next ==
    \/ StoreSimulationResult
    \/ RequestResultDecryption
    \/ DecryptSimulationResult

Spec == Init /\ [][Next]_vars

(* The protocol together with the calls on patientData *)
NextContract ==
    \/ SubmitHealthData
    \/ RequestSimulation
    \/ StoreSimulationResult
    \/ RequestResultDecryption
    \/ DecryptSimulationResult

SpecContract == Init /\ [][NextContract]_vars

(* The calls on patientData and on the model parameters *)
NextData ==
    \/ SubmitPatientData
    \/ SetModelParameters
    \/ RequestSimulation
    \/ PredictDiseaseRisk
    \/ PredictDrugResponse
    \/ GetEncryptedHealthData

SpecData == Init /\ [][NextData]_vars

(* Patient data submitted at any time around the life of a result: stored, *)
(* requested, answered by the decryption service                           *)
NextResults ==
    \/ SubmitHealthData
    \/ StoreSimulationResult
    \/ RequestResultDecryption
    \/ DeliverDecryption

SpecResults == Init /\ [][NextResults]_vars

(* The record store and the clients driving it, in any interleaving *)
NextApp ==
    \E c \in Clients :
        \/ Connect(c)
        \/ SubmitStart(c)
        \/ SubmitSetTwin(c)
        \/ SubmitGetKeys(c)
        \/ SubmitSetKeys(c)
        \/ ActivateStart(c)
        \/ ArchiveStart(c)
        \/ TransitionGetTwin(c)
        \/ TransitionSetTwin(c)
        \/ Throw(c)
        \/ LoadStart(c)
        \/ LoadGetKeys(c)
        \/ LoadGetTwins(c)
        \/ LoadThrow(c)

SpecApp == Init /\ [][NextApp]_vars

(* Creations one at a time, every awaited call succeeding: a submitTwin    *)
(* starts only when no other client is inside submitTwin, and nothing      *)
(* rejects.  Status transitions and reloads interleave freely.             *)
NoOtherCreation(c) == \A d \in Clients \ {c} : call[d].op # "submitTwin"

NextAppUncontended ==
    \E c \in Clients :
        \/ Connect(c)
        \/ SubmitStart(c) /\ NoOtherCreation(c)
        \/ SubmitSetTwin(c)
        \/ SubmitGetKeys(c)
        \/ SubmitSetKeys(c)
        \/ ActivateStart(c)
        \/ ArchiveStart(c)
        \/ TransitionGetTwin(c)
        \/ TransitionSetTwin(c)
        \/ LoadStart(c)
        \/ LoadGetKeys(c)
        \/ LoadGetTwins(c)

SpecAppUncontended == Init /\ [][NextAppUncontended]_vars
(***************************************************************************)
(* Properties of the decryption protocol (checked under Spec)              *)
(***************************************************************************)
IsDecryptCall(l) == l.op = "decryptSimulationResult"

(* C1: while decryptedResults[p].isRevealed holds, a callback with a       *)
(* request id mapped to p reverts with "Already revealed" and no storage   *)
(* variable changes.                                                       *)
C1_RevealedCallbackRejected ==
    [][ (/\ IsDecryptCall(last')
         /\ decryptedResults[requestToPatientId[last'.requestId]].isRevealed)
        => (/\ last'.err = "Already revealed"
            /\ UNCHANGED storageVars) ]_vars

C1_Witness ==
    /\ IsDecryptCall(last)
    /\ last.err = "Already revealed"
    /\ last.proofValid
    /\ decryptedResults[last.patientId].isRevealed
    /\ Len(decryptedResults[last.patientId].drugResponse) > 0

(* C2: the decrypted result of a patient is written by the callback at     *)
(* most once: a successful callback never uses a request id that an        *)
(* earlier successful callback consumed, nor reveals a patient that an     *)
(* earlier successful callback revealed.                                   *)
C2_RevealedAtMostOnce ==
    [][ (IsDecryptCall(last') /\ last'.err = "ok")
        => (/\ last'.requestId \notin consumed
            /\ \A r \in consumed : requestToPatientId[r] # last'.patientId) ]_vars

(* C3: a callback with a request id that requestResultDecryption never     *)
(* returned reverts with "Invalid request" and changes no storage.         *)
C3_UnknownRequestRejected ==
    [][ (IsDecryptCall(last') /\ last'.requestId >= counterRequest)
        => (/\ last'.err = "Invalid request"
            /\ UNCHANGED storageVars) ]_vars

C3_Witness ==
    /\ IsDecryptCall(last)
    /\ last.requestId >= counterRequest
    /\ last.err = "Invalid request"
    /\ last.proofValid
    /\ counterRequest > 0
    /\ \E p \in PatientIds : simulationResults[p].isComplete

(* C4: requestResultDecryption(p) on an incomplete simulation or on a      *)
(* revealed result aborts: no request is issued, no request id is mapped,  *)
(* decryptedResults and the rest of the storage stay as they were.         *)
C4_RequestPreconditions ==
    [][ (/\ last'.op = "requestResultDecryption"
         /\ \/ ~simulationResults[last'.patientId].isComplete
            \/ decryptedResults[last'.patientId].isRevealed)
        => (/\ last'.err # "ok"
            /\ UNCHANGED <<storageVars, counterRequest>>) ]_vars

C4_Witness ==
    /\ last.op = "requestResultDecryption"
    /\ last.err = "Already revealed"
    /\ decryptedResults[last.patientId].isRevealed
    /\ counterRequest < MaxRequests

(* C5: a callback whose proof does not verify, for a known request id of   *)
(* an unrevealed patient, reverts and changes no storage; the same request *)
(* id then still accepts a callback with a valid proof.                    *)
C5_BadProofIsFatal ==
    [][ (/\ IsDecryptCall(last')
         /\ ~last'.proofValid
         /\ requestToPatientId[last'.requestId] # 0
         /\ ~decryptedResults[requestToPatientId[last'.requestId]].isRevealed)
        => (/\ last'.err = "checkSignatures"
            /\ UNCHANGED storageVars
            /\ \A a \in SeqsUpTo(Plain, MaxResults) :
                   Len(a) >= 1 =>
                       decryptSimulationResult(Storage', last'.requestId,
                                               AbiEncode(a), TRUE).err = "ok") ]_vars

C5_Witness ==
    /\ IsDecryptCall(last)
    /\ ~last.proofValid
    /\ last.err = "checkSignatures"
    /\ last.patientId # 0
    /\ ~decryptedResults[last.patientId].isRevealed

(* C6: after a successful callback whose cleartext decodes to r (n >= 1    *)
(* elements), the patient's risk score is r[0], the drug-response vector   *)
(* is r[1..n-1] in the same order, and the result is revealed.             *)
C6_DecodedLayout ==
    (IsDecryptCall(last) /\ last.err = "ok")
    => LET r == last.results
           d == decryptedResults[last.patientId]
       IN /\ Len(r) >= 1
          /\ d.diseaseRiskScore = r[1]
          /\ Len(d.drugResponse) = Len(r) - 1
          /\ \A i \in 1..(Len(r) - 1) : d.drugResponse[i] = r[i + 1]
          /\ d.isRevealed

C6_Witness ==
    /\ IsDecryptCall(last)
    /\ last.err = "ok"
    /\ Len(last.results) = 3
    /\ last.results[1] # last.results[2]
    /\ last.results[2] # last.results[3]

(* C7: a requestResultDecryption or requestSimulation call from a caller   *)
(* who is neither the patient nor an authorized physician is rejected.     *)
IsAuthorizedCaller(sender) == sender \in {"patient", "physician"}

C7_OnlyAuthorizedCallers ==
    (/\ last.op \in {"requestResultDecryption", "requestSimulation"}
     /\ ~IsAuthorizedCaller(last.sender))
    => last.err # "ok"
(***************************************************************************)
(* Properties of the twin record store                                     *)
(***************************************************************************)
SeqToSet(seq) == {seq[i] : i \in 1..Len(seq)}
NoDuplicates(seq) == \A i, j \in 1..Len(seq) : seq[i] = seq[j] => i = j
StoredTwinIds == {id \in TwinIds : Len(getData(store, TwinKey(id))) > 0}
InLoad(c) == call[c].pc \in {"load_getKeys", "load_getTwins"}
StoredStatus(id) ==
    GetMember(JSONparse(toUtf8String(getData(store, TwinKey(id)))).value, "status")

(* C8 (checked under SpecAppUncontended): once the creations run so far    *)
(* have completed, "twin_keys" lists exactly the ids created and lists no  *)
(* id twice.                                                               *)
C8_IndexExactNoDuplicates ==
    (\A c \in Clients : call[c].op # "submitTwin")
    => (/\ SeqToSet(IndexKeys) = StoredTwinIds
        /\ NoDuplicates(IndexKeys))

(* C9 (checked under SpecApp): client c writes the index back after client *)
(* d has written it, both having read it before either write (d's id is in *)
(* the stored index and not in the array c read).  Then both calls report  *)
(* success, both records are stored, and the index holds c's id and no     *)
(* longer d's.                                                             *)
C9_LostIndexUpdate ==
    [][ \A c, d \in Clients :
          (/\ c # d
           /\ call[c].pc = "submit_setKeys"
           /\ call'[c].pc = "load_getKeys"
           /\ call[d].op = "submitTwin" /\ InLoad(d)
           /\ call[d].twinId # call[c].twinId
           /\ call[d].twinId \in SeqToSet(IndexKeys)
           /\ call[d].twinId \notin SeqToSet(call[c].keys))
          => (/\ call[c].twinId \in SeqToSet(IndexKeys')
              /\ call[d].twinId \notin SeqToSet(IndexKeys')
              /\ Len(getData(store', TwinKey(call[c].twinId))) > 0
              /\ Len(getData(store', TwinKey(call[d].twinId))) > 0
              /\ transactionStatus'[c].status = "success"
              /\ transactionStatus'[d].status = "success") ]_vars

C9_Witness ==
    \E c, d \in Clients :
        /\ c # d
        /\ call[c].op = "submitTwin" /\ InLoad(c)
        /\ call[d].op = "submitTwin" /\ InLoad(d)
        /\ call[c].twinId # call[d].twinId
        /\ transactionStatus[c].status = "success"
        /\ transactionStatus[d].status = "success"
        /\ call[c].twinId \in SeqToSet(IndexKeys)
        /\ call[d].twinId \notin SeqToSet(IndexKeys)
        /\ {call[c].twinId, call[d].twinId} \subseteq StoredTwinIds

(* C10 (checked under SpecApp): activateTwin run on a record that an       *)
(* activateTwin already produced (the client read the stored record, whose *)
(* status is "active") writes back the identical record; likewise          *)
(* archiveTwin on an archived record.                                      *)
C10_TransitionIdempotent ==
    [][ \A c \in Clients :
          (/\ call[c].pc = "transition_setTwin"
           /\ call'[c].pc = "load_getKeys"
           /\ toUtf8Bytes(JSONstringify(call[c].twinData))
                  = getData(store, TwinKey(call[c].twinId))
           /\ GetMember(call[c].twinData, "status")
                  = (IF call[c].op = "activateTwin" THEN "active" ELSE "archived"))
          => store' = store ]_vars

C10_Witness ==
    \E c \in Clients :
        /\ call[c].op = "activateTwin"
        /\ call[c].pc = "load_getKeys"
        /\ transactionStatus[c].status = "success"
        /\ GetMember(call[c].twinData, "status") = "active"
        /\ StoredStatus(call[c].twinId) = "active"
(***************************************************************************)
(* Properties of the twin records (checked under SpecApp)                  *)
(***************************************************************************)
StoredRecord(st, id) == JSONparse(toUtf8String(getData(st, TwinKey(id)))).value
WritesTransition(c) ==
    call[c].pc = "transition_setTwin" /\ call'[c].pc = "load_getKeys"
TargetStatus(c) == IF call[c].op = "activateTwin" THEN "active" ELSE "archived"

(* C11: the record write of submitTwin stores the twin with status          *)
(* "pending"; the record write of a successful activateTwin (archiveTwin)   *)
(* leaves under "twin_" + id a record with status "active" ("archived") and *)
(* the data, timestamp, owner and scale of the record the operation read,   *)
(* and changes neither "twin_keys" nor the record of any other twin.        *)
C11_TransitionFrame ==
    [][ \A c \in Clients :
          /\ (call[c].pc = "submit_setTwin" /\ call'[c].pc = "submit_getKeys")
             => GetMember(StoredRecord(store', call[c].twinId), "status") = "pending"
          /\ WritesTransition(c)
             => LET before == call[c].twinData
                    after == StoredRecord(store', call[c].twinId)
                IN /\ GetMember(after, "status") = TargetStatus(c)
                   /\ \A f \in {"data", "timestamp", "owner", "scale"} :
                         GetMember(after, f) = GetMember(before, f)
                   /\ Len(after.items) = Len(before.items)
                   /\ \A k \in StoreKeys \ {TwinKey(call[c].twinId)} :
                         getData(store', k) = getData(store, k) ]_vars

(* Two twins are stored and indexed, and a client has just activated one of *)
(* them, which was pending when it read it.                                 *)
C11_Witness ==
    \E c \in Clients :
        /\ call[c].op = "activateTwin" /\ call[c].pc = "load_getKeys"
        /\ GetMember(call[c].twinData, "status") = "pending"
        /\ StoredStatus(call[c].twinId) = "active"
        /\ Len(IndexKeys) = 2
        /\ \E id \in StoredTwinIds \ {call[c].twinId} : StoredStatus(id) = "pending"

(***************************************************************************)
(* Properties of the calls on patient data (checked under SpecData)        *)
(***************************************************************************)
Min(a, b) == IF a < b THEN a ELSE b
(* The sum of params[i] * data[i] over the first n indices, last term first *)
RECURSIVE DotProduct(_, _, _)
DotProduct(params, data, n) ==
    IF n = 0 THEN U32(0, 0)
    ELSE Add32(Mul32(Dec(params[n]), Dec(data[n])), DotProduct(params, data, n - 1))
HasData(p) == patientData[p].timestamp > 0

(* C12: for a patient with submitted data predictDiseaseRisk returns       *)
(* without error the encryption of the sum, modulo 2^32, of                *)
(* genomicModelParams[i] * genomicData[i] over the indices i below the     *)
(* shorter of the two lengths, also when the parameter vector is longer    *)
(* than the data vector.                                                   *)
C12_RiskIsTruncatedDotProduct ==
    (last.op = "predictDiseaseRisk" /\ HasData(last.patientId))
    => LET data == patientData[last.patientId].genomicData
           n == Min(Len(genomicModelParams), Len(data))
       IN /\ last.err = "ok"
          /\ last.value = Enc(DotProduct(genomicModelParams, data, n))

(* A prediction with more parameters than data: (2^32 - 1) * (2^32 - 1),   *)
(* which is 1 modulo 2^32                                                  *)
C12_Witness ==
    /\ last.op = "predictDiseaseRisk" /\ last.err = "ok"
    /\ Len(genomicModelParams) = 2
    /\ patientData[last.patientId].genomicData = <<Enc(U32(HalfWord - 1, HalfWord - 1))>>
    /\ genomicModelParams[1] = Enc(U32(HalfWord - 1, HalfWord - 1))
    /\ last.value = Enc(U32(0, 1))

(* C13: for a patient with submitted data predictDrugResponse(p, drugIndex) *)
(* returns without error predictDiseaseRisk(p) plus biomarkers[drugIndex]   *)
(* when drugIndex is below the number of biomarkers, and                    *)
(* predictDiseaseRisk(p) itself when it is not.                             *)
C13_ResponseIsRiskPlusBiomarker ==
    (last.op = "predictDrugResponse" /\ HasData(last.patientId))
    => LET biomarkers == patientData[last.patientId].biomarkers
           risk == predictDiseaseRisk(Storage, last.patientId)
       IN /\ last.err = "ok"
          /\ risk.err = "ok"
          /\ last.value = IF last.drugIndex < Len(biomarkers)
                          THEN Enc(Add32(Dec(risk.value),
                                         Dec(biomarkers[last.drugIndex + 1])))
                          ELSE risk.value

(* A response asked for the index just past the only biomarker, the        *)
(* genomic term not being zero                                             *)
C13_Witness ==
    /\ last.op = "predictDrugResponse" /\ last.err = "ok"
    /\ Len(patientData[last.patientId].biomarkers) = 1
    /\ last.drugIndex = 1
    /\ last.value # Enc(U32(0, 0))

(***************************************************************************)
(* Further properties of the decryption protocol (checked under Spec)      *)
(***************************************************************************)
(* The request ids handed out by the decryption service so far *)
Recorded == {r \in RequestIds : r < counterRequest}

(* C14: every request id recorded by requestResultDecryption maps to a      *)
(* patient whose simulation result is complete, and every revealed result   *)
(* belongs to a patient whose simulation result is complete.                *)
C14_RequestsReferToCompleteSimulations ==
    /\ \A r \in Recorded : simulationResults[requestToPatientId[r]].isComplete
    /\ \A p \in PatientIds :
          decryptedResults[p].isRevealed => simulationResults[p].isComplete

(* Requests recorded for two patients, one of them revealed *)
C14_Witness ==
    /\ \E r1, r2 \in Recorded : requestToPatientId[r1] # requestToPatientId[r2]
    /\ \E p \in PatientIds : decryptedResults[p].isRevealed

(* C15 (checked under SpecApp): the stored status of a twin never changes  *)
(* from "active" to "archived" or from "archived" to "active", whatever    *)
(* the interleaving of activateTwin and archiveTwin calls of the clients.  *)
C15_StatusForwardOnly ==
    [][ \A id \in StoredTwinIds :
          /\ ~(StoredStatus(id) = "active" /\ StoredStatus(id)' = "archived")
          /\ ~(StoredStatus(id) = "archived" /\ StoredStatus(id)' = "active") ]_vars

(* The decryption service's answer to a request: the plaintext of each     *)
(* ciphertext, in the order of the request                                 *)
ServiceAnswer(ciphertexts) == [k \in 1..Len(ciphertexts) |-> ciphertexts[k][2]]

(* C16: a successful requestResultDecryption(p) hands over 1 +             *)
(* len(drugResponse) ciphertexts, the risk score first and drugResponse[i] *)
(* at position i + 1; and when the callback delivers the element-wise      *)
(* decryption of that request, no storeSimulationResult(p) having happened *)
(* since the request, the revealed risk score and drug responses are the   *)
(* decryptions of the stored simulation result, position by position.      *)
C16_FlattenedOrderIsRevealedOrder ==
    [][ /\ (last'.op = "requestResultDecryption" /\ last'.err = "ok")
           => LET result == simulationResults[last'.patientId]
                  ciphertexts == decryptionRequests'[last'.requestId]
              IN /\ Len(ciphertexts) = 1 + Len(result.drugResponse)
                 /\ ciphertexts[1] = toBytes32(result.diseaseRiskScore)
                 /\ \A i \in 1..Len(result.drugResponse) :
                       ciphertexts[i + 1] = toBytes32(result.drugResponse[i])
        /\ (/\ IsDecryptCall(last') /\ last'.err = "ok"
            /\ last'.results = ServiceAnswer(decryptionRequests[last'.requestId])
            /\ last'.requestId \notin stale)
           => LET result == simulationResults[last'.patientId]
                  revealed == decryptedResults'[last'.patientId]
              IN /\ revealed.isRevealed
                 /\ revealed.diseaseRiskScore = Dec(result.diseaseRiskScore)
                 /\ Len(revealed.drugResponse) = Len(result.drugResponse)
                 /\ \A i \in 1..Len(result.drugResponse) :
                       revealed.drugResponse[i] = Dec(result.drugResponse[i]) ]_vars

(* The service's answer has been delivered for a result whose risk score   *)
(* and drug response differ                                                *)
C16_Witness ==
    /\ IsDecryptCall(last) /\ last.err = "ok"
    /\ last.requestId \notin stale
    /\ last.results = ServiceAnswer(decryptionRequests[last.requestId])
    /\ Len(last.results) = 2 /\ last.results[1] # last.results[2]

(* The request ids recorded for patient p *)
RequestsForIn(counter, map, p) == {r \in RequestIds : r < counter /\ map[r] = p}
RequestsFor(p) == RequestsForIn(counterRequest, requestToPatientId, p)

(* C17: requestResultDecryption(p) succeeds whenever the result of p is    *)
(* complete and unrevealed, whatever requests are outstanding for p; of    *)
(* the callbacks for the requests of p, delivered in any order, one with a *)
(* valid proof and a non-empty array is accepted while p is unrevealed and *)
(* every one is rejected while p is revealed, the revealed values staying  *)
(* as first written.                                                       *)
C17_FirstCallbackWins ==
    [][ /\ (/\ last'.op = "requestResultDecryption"
            /\ simulationResults[last'.patientId].isComplete
            /\ ~decryptedResults[last'.patientId].isRevealed)
           => (/\ last'.err = "ok"
               /\ RequestsForIn(counterRequest', requestToPatientId', last'.patientId) =
                     RequestsFor(last'.patientId) \cup {last'.requestId})
        /\ \A p \in PatientIds \ {0} :
             (IsDecryptCall(last') /\ last'.requestId \in RequestsFor(p))
             => IF decryptedResults[p].isRevealed
                THEN /\ last'.err = "Already revealed"
                     /\ decryptedResults' = decryptedResults
                ELSE \/ last'.err = "ok" /\ decryptedResults'[p].isRevealed
                     \/ last'.err # "ok" /\ decryptedResults' = decryptedResults
                                         /\ last'.err \in {"checkSignatures", "abi.decode",
                                                           "Panic(0x32)"} ]_vars

(* Two requests are outstanding for one patient; the later request was     *)
(* answered first, and the callback for the earlier one has been rejected  *)
C17_Witness ==
    /\ IsDecryptCall(last) /\ last.requestId = 0 /\ last.proofValid
    /\ last.err = "Already revealed"
    /\ consumed = {1} /\ stale = {}
    /\ requestToPatientId[0] = requestToPatientId[1]
    /\ decryptedResults[requestToPatientId[1]].isRevealed

InFlight(id) ==
    \E c \in Clients : /\ call[c].op = "submitTwin" /\ call[c].twinId = id
                       /\ call[c].pc \in {"submit_setTwin", "submit_getKeys",
                                          "submit_setKeys"}
(* A record left behind: stored, not in the index, and no submitTwin of    *)
(* its id in progress that could still index it                            *)
Orphan(id) ==
    /\ id \in StoredTwinIds
    /\ id \notin SeqToSet(IndexKeys)
    /\ ~InFlight(id)
IndexWriteRejected(c) ==
    /\ call[c].op = "submitTwin" /\ call[c].pc = "submit_setKeys"
    /\ call'[c].pc = "idle"

(* C18 (checked under SpecApp): when the write of "twin_keys" of a         *)
(* submitTwin is rejected after its record write succeeded, the store is   *)
(* left as it is, with the record stored and its id absent from the index, *)
(* and the client shows an error; and the id of a record so left behind is *)
(* never in the index afterwards, and the record stays stored.             *)
C18_OrphanedRecordStays ==
    /\ [][ \A c \in Clients :
              IndexWriteRejected(c)
              => /\ store' = store
                 /\ call[c].twinId \in StoredTwinIds
                 /\ call[c].twinId \notin SeqToSet(IndexKeys)
                 /\ transactionStatus'[c] = Status("error", "Submission failed: ") ]_vars
    /\ \A id \in TwinIds :
          [](Orphan(id) => [](id \in StoredTwinIds /\ id \notin SeqToSet(IndexKeys)))

(* The calls that require patient data *)
NeedsPatientData ==
    {"requestSimulation", "predictDiseaseRisk", "predictDrugResponse",
     "getEncryptedHealthData"}

(* C19 (checked under SpecData): requestSimulation, predictDiseaseRisk,    *)
(* predictDrugResponse and getEncryptedHealthData revert with "Patient     *)
(* data not found" and change no storage for a patient id for which        *)
(* submitHealthData was never called; for a patient whose data was         *)
(* submitted none of them reverts with that message; and requestSimulation *)
(* changes no storage in either case.                                      *)
C19_PatientDataRequired ==
    [][ last'.op \in NeedsPatientData
        => /\ ~HasData(last'.patientId)
              => (last'.err = "Patient data not found" /\ UNCHANGED storageVars)
           /\ HasData(last'.patientId) => last'.err # "Patient data not found"
           /\ last'.op = "requestSimulation" => UNCHANGED storageVars ]_vars

(* getEncryptedHealthData has been refused for a patient without data      *)
(* while another patient has data                                          *)
C19_Witness ==
    /\ last.op = "getEncryptedHealthData"
    /\ last.err = "Patient data not found"
    /\ ~HasData(last.patientId)
    /\ \E p \in PatientIds : HasData(p) /\ Len(patientData[p].genomicData) > 0

(***************************************************************************)
(* Revealing a requested result (checked under Spec)                       *)
(***************************************************************************)
(* C20: for every patient id p, 0 included, and every request id recorded  *)
(* for p by a successful requestResultDecryption, while the result of p is *)
(* complete and unrevealed a callback for that request id with a valid     *)
(* proof and a non-empty cleartext array succeeds and reveals the result.  *)
C20_RequestedResultCanBeRevealed ==
    \A r \in Recorded :
        LET p == requestToPatientId[r]
        IN (simulationResults[p].isComplete /\ ~decryptedResults[p].isRevealed)
           => \A a \in SeqsUpTo(Plain, MaxResults) :
                 Len(a) >= 1
                 => LET c == decryptSimulationResult(Storage, r, AbiEncode(a), TRUE)
                    IN c.err = "ok" /\ c.st.decryptedResults[p].isRevealed

(* C21 (checked under Spec): when the decryption service answers a request *)
(* with the decryption of the ciphertexts that request carried and the     *)
(* callback is accepted, the revealed values are those of the simulation   *)
(* result stored for the patient at that moment: the revealed drug-response*)
(* vector has the length of the stored one and every revealed value is the *)
(* decryption of the stored ciphertext, also when storeSimulationResult    *)
(* was called again after the request.                                     *)
C21_RevealedBelongsToStoredResult ==
    (/\ IsDecryptCall(last) /\ last.err = "ok"
     /\ last.results = ServiceAnswer(decryptionRequests[last.requestId]))
    => LET result == simulationResults[last.patientId]
           revealed == decryptedResults[last.patientId]
       IN /\ revealed.isRevealed
          /\ Len(revealed.drugResponse) = Len(result.drugResponse)
          /\ revealed.diseaseRiskScore = Dec(result.diseaseRiskScore)
          /\ \A i \in 1..Len(result.drugResponse) :
                i <= Len(revealed.drugResponse)
                /\ revealed.drugResponse[i] = Dec(result.drugResponse[i])

(***************************************************************************)
(* The frame of submitHealthData (checked under SpecResults)               *)
(***************************************************************************)
(* C22: submitHealthData(p, ...) replaces patientData[p] and nothing else: *)
(* the patient data of every other patient, simulationResults,             *)
(* decryptedResults, requestToPatientId and the three model-parameter      *)
(* vectors are unchanged, so a result stored, complete and possibly        *)
(* revealed for earlier data of p stays so.                                *)
C22_SubmitHealthDataFrame ==
    [][ last'.op = "submitHealthData"
        => /\ last'.err = "ok"
           /\ patientData'[last'.patientId].patientId = last'.patientId
           /\ \A q \in PatientIds \ {last'.patientId} : patientData'[q] = patientData[q]
           /\ UNCHANGED <<simulationResults, decryptedResults, requestToPatientId,
                          genomicModelParams, cellularModelParams, organModelParams>> ]_vars

(* New data has been submitted for a patient whose result is stored and    *)
(* revealed, another patient having data and a stored result too           *)
C22_Witness ==
    /\ last.op = "submitHealthData"
    /\ Len(patientData[last.patientId].genomicData) > 0
    /\ simulationResults[last.patientId].isComplete
    /\ decryptedResults[last.patientId].isRevealed
    /\ Len(decryptedResults[last.patientId].drugResponse) > 0
    /\ \E q \in PatientIds \ {last.patientId} :
          patientData[q].timestamp > 0 /\ simulationResults[q].isComplete

(***************************************************************************)
(* The index and the records (checked under SpecApp)                       *)
(***************************************************************************)
(* C23: in every reachable state of the record store, whatever the         *)
(* interleaving of submitTwin, activateTwin and archiveTwin executions,    *)
(* every id listed in "twin_keys" has a non-empty record stored under      *)
(* "twin_" + id.                                                           *)
C23_IndexedTwinsAreStored ==
    \A i \in 1..Len(IndexKeys) : Len(getData(store, TwinKey(IndexKeys[i]))) > 0

(* After a lost index update: one twin is indexed and active, the other   *)
(* is stored but not indexed, and both clients show success                *)
C23_Witness ==
    /\ Len(IndexKeys) = 1
    /\ StoredStatus(IndexKeys[1]) = "active"
    /\ \E id \in TwinIds : Orphan(id)
    /\ \A c \in Clients : /\ call[c].pc = "idle"
                           /\ transactionStatus[c] = Status("success", "")

(***************************************************************************)
(* The empty cleartext array (checked under Spec)                          *)
(***************************************************************************)
(* C24: a callback for a recorded request id of an unrevealed patient      *)
(* whose cleartext decodes to the empty array reverts as a whole: the      *)
(* decrypted result of the patient stays unrevealed with the values it     *)
(* had, and no other storage changes.                                      *)
C24_EmptyArrayReverts ==
    \A r \in Recorded :
        LET p == requestToPatientId[r]
        IN (p # 0 /\ ~decryptedResults[p].isRevealed)
           => \A proofValid \in BOOLEAN :
                 LET c == decryptSimulationResult(Storage, r, AbiEncode(<<>>), proofValid)
                 IN /\ AbiDecode(AbiEncode(<<>>)) = [ok |-> TRUE, value |-> <<>>]
                    /\ c.err # "ok"
                    /\ c.st = Storage
                    /\ ~c.st.decryptedResults[p].isRevealed

(* A callback with a valid proof and the empty array has just been         *)
(* refused for a recorded request of an unrevealed patient                 *)
C24_Witness ==
    /\ IsDecryptCall(last) /\ last.err = "Panic(0x32)" /\ last.proofValid
    /\ last.requestId \in Recorded
    /\ last.patientId # 0
    /\ ~decryptedResults[last.patientId].isRevealed
    /\ simulationResults[last.patientId].isComplete

====
